---- MODULE Spec2Model ----
(***************************************************************************)
(* nltk.sem.logic: first order predicate logic on top of the untyped       *)
(* lambda calculus.  The Expression classes (free, replace, alpha_convert, *)
(* simplify, __eq__, __str__), the fresh-name counter, and the LogicParser *)
(* (process, tokenizing, recursive descent).                               *)
(*                                                                         *)
(* A Python str is a sequence of one-character strings, so that process,   *)
(* __str__ and the parser work on the same text.  An Expression object is  *)
(* a record whose tag field is the name of its class.                      *)
(***************************************************************************)
EXTENDS Integers, Sequences, FiniteSets, TLC

VARIABLES
  counter,       \* the value held by the module's _counter
  buffer,        \* LogicParser._buffer
  currentIndex,  \* LogicParser._currentIndex
  data,          \* the text handed to the parser, or printed by str
  self,          \* the expression the last method was called on
  variable,      \* the variable argument of replace or alpha_convert
  expression,    \* the expression argument of replace or __eq__
  op,            \* the last call made
  result,        \* what it returned
  raised         \* the exception it raised, or "none"

vars ==
  <<counter, buffer, currentIndex, data, self, variable, expression, op, result, raised>>

(***************************************************************************)
(* Text                                                                    *)
(***************************************************************************)
RECURSIVE Join(_, _)
Join(strs, sep) ==
  IF Len(strs) = 0 THEN <<>>
  ELSE IF Len(strs) = 1 THEN strs[1]
  ELSE strs[1] \o sep \o Join(Tail(strs), sep)

Digit(d) ==
  CASE d = 0 -> "0" [] d = 1 -> "1" [] d = 2 -> "2" [] d = 3 -> "3"
    [] d = 4 -> "4" [] d = 5 -> "5" [] d = 6 -> "6" [] d = 7 -> "7"
    [] d = 8 -> "8" [] d = 9 -> "9"

RECURSIVE str_int(_)
str_int(k) ==
  IF k < 10 THEN <<Digit(k)>> ELSE str_int(k \div 10) \o <<Digit(k % 10)>>

(***************************************************************************)
(* class Tokens, with n = 1 the flavor used for printing                   *)
(***************************************************************************)
n == 1

Tokens_LAMBDA == << <<"\\">>, <<"\\">>, <<"\\">> >>
Tokens_EXISTS == << <<"s","o","m","e">>, <<"e","x","i","s","t","s">>, <<"e","x","i","s","t","s">> >>
Tokens_ALL == << <<"a","l","l">>, <<"a","l","l">>, <<"a","l","l">> >>
Tokens_DOT == << <<".">>, <<".">>, <<" ">> >>
Tokens_OPEN == <<"(">>
Tokens_CLOSE == <<")">>
Tokens_COMMA == <<",">>
Tokens_NOT == << <<"n","o","t">>, <<"-">>, <<"-">> >>
Tokens_AND == << <<"a","n","d">>, <<"&">>, <<"&">> >>
Tokens_OR == << <<"o","r">>, <<"|">>, <<"|">> >>
Tokens_IMP == << <<"i","m","p","l","i","e","s">>, <<"-",">">>, <<"-",">">> >>
Tokens_IFF == << <<"i","f","f">>, <<"<","-",">">>, <<"<","-",">">> >>
Tokens_EQ == << <<"=">>, <<"=">>, <<"=">> >>

Tokens_BOOLS == Tokens_AND \o Tokens_OR \o Tokens_IMP \o Tokens_IFF
Tokens_BINOPS == Tokens_BOOLS \o Tokens_EQ
Tokens_QUANTS == Tokens_EXISTS \o Tokens_ALL
Tokens_PUNCT == <<Tokens_DOT[1], Tokens_OPEN, Tokens_CLOSE, Tokens_COMMA>>
Tokens_TOKENS == Tokens_BINOPS \o Tokens_QUANTS \o Tokens_LAMBDA \o Tokens_PUNCT \o Tokens_NOT
Tokens_SYMBOLS == Tokens_LAMBDA \o Tokens_PUNCT \o <<Tokens_AND[2], Tokens_OR[2], Tokens_NOT[2], Tokens_IMP[2], Tokens_IFF[2]>> \o Tokens_EQ

\* Python's "x in list"
InList(x, list) == \E i \in DOMAIN list : list[i] = x

(***************************************************************************)
(* The Expression classes                                                  *)
(***************************************************************************)
VariableExpression(name) == [tag |-> "VariableExpression", name |-> name]

ApplicationExpression(function, args) ==
  [tag |-> "ApplicationExpression", function |-> function, args |-> args]

VariableBinderExpression(cls, v, term) == [tag |-> cls, variable |-> v, term |-> term]

LambdaExpression(v, term) == VariableBinderExpression("LambdaExpression", v, term)
ExistsExpression(v, term) == VariableBinderExpression("ExistsExpression", v, term)
AllExpression(v, term) == VariableBinderExpression("AllExpression", v, term)

NegatedExpression(term) == [tag |-> "NegatedExpression", term |-> term]

BooleanExpression(cls, first, second) == [tag |-> cls, first |-> first, second |-> second]

BinderClasses == {"LambdaExpression", "ExistsExpression", "AllExpression"}
BooleanClasses ==
  {"AndExpression", "OrExpression", "ImpExpression", "IffExpression", "EqualityExpression"}

IsVar(e) == e.tag = "VariableExpression"
IsApp(e) == e.tag = "ApplicationExpression"
IsBinder(e) == e.tag \in BinderClasses
IsNeg(e) == e.tag = "NegatedExpression"
IsBool(e) == e.tag \in BooleanClasses

\* _counter.get(): the counter advances and its new value is returned
Counter_get(ctr) == [value |-> ctr + 1, ctr |-> ctr + 1]

unique_variable(ctr) ==
  LET g == Counter_get(ctr)
  IN  [e |-> VariableExpression(<<"z">> \o str_int(g.value)), ctr |-> g.ctr]

RECURSIVE free(_)
free(e) ==
  CASE IsVar(e) -> {e}
    [] IsApp(e) -> free(e.function) \cup UNION {free(e.args[i]) : i \in DOMAIN e.args}
    [] IsBinder(e) -> free(e.term) \ {e.variable}
    [] IsNeg(e) -> free(e.term)
    [] IsBool(e) -> free(e.first) \cup free(e.second)

\* VariableExpression.__eq__ (touches no counter)
VarEq(a, b) == IsVar(a) /\ IsVar(b) /\ a.name = b.name

RECURSIVE replace(_, _, _, _, _), replace_args(_, _, _, _, _), alpha_convert(_, _, _)

\* [arg.replace(variable, expr, replace_bound) for arg in args]
replace_args(args, v, expr, replace_bound, ctr) ==
  IF Len(args) = 0 THEN [es |-> <<>>, ctr |-> ctr]
  ELSE LET h == replace(Head(args), v, expr, replace_bound, ctr)
           t == replace_args(Tail(args), v, expr, replace_bound, h.ctr)
       IN  [es |-> <<h.e>> \o t.es, ctr |-> t.ctr]

\* a slip: the binder is renamed and its body is left as it was
alpha_convert_body_kept(b, newvar, ctr) ==
  [e |-> VariableBinderExpression(b.tag, newvar, b.term), ctr |-> ctr]

alpha_convert(b, newvar, ctr) ==
  LET t == replace(b.term, b.variable, newvar, TRUE, ctr)
  IN  [e |-> VariableBinderExpression(b.tag, newvar, t.e), ctr |-> t.ctr]

BinderReplace(b, v, expr, replace_bound, ctr) ==
  IF VarEq(b.variable, v)
  THEN IF replace_bound
       THEN LET t == replace(b.term, v, expr, TRUE, ctr)
            IN  [e |-> VariableBinderExpression(b.tag, expr, t.e), ctr |-> t.ctr]
       ELSE [e |-> b, ctr |-> ctr]
  ELSE LET conflict == b.variable \in free(expr)
           u == unique_variable(ctr)
           s == IF conflict THEN alpha_convert(b, u.e, u.ctr) ELSE [e |-> b, ctr |-> ctr]
           t == replace(s.e.term, v, expr, replace_bound, s.ctr)
       IN  [e |-> VariableBinderExpression(b.tag, s.e.variable, t.e), ctr |-> t.ctr]

replace(e, v, expr, replace_bound, ctr) ==
  CASE IsVar(e) -> [e |-> IF VarEq(e, v) THEN expr ELSE e, ctr |-> ctr]
    [] IsApp(e) ->
         LET f == replace(e.function, v, expr, replace_bound, ctr)
             a == replace_args(e.args, v, expr, replace_bound, f.ctr)
         IN  [e |-> ApplicationExpression(f.e, a.es), ctr |-> a.ctr]
    [] IsBinder(e) -> BinderReplace(e, v, expr, replace_bound, ctr)
    [] IsNeg(e) ->
         LET t == replace(e.term, v, expr, replace_bound, ctr)
         IN  [e |-> NegatedExpression(t.e), ctr |-> t.ctr]
    [] IsBool(e) ->
         LET a == replace(e.first, v, expr, replace_bound, ctr)
             b == replace(e.second, v, expr, replace_bound, a.ctr)
         IN  [e |-> BooleanExpression(e.tag, a.e, b.e), ctr |-> b.ctr]

RECURSIVE eq(_, _, _), eq_list(_, _, _)

\* list.__eq__: equal lengths, then element by element up to the first difference
eq_list(xs, ys, ctr) ==
  IF Len(xs) # Len(ys) THEN [b |-> FALSE, ctr |-> ctr]
  ELSE IF Len(xs) = 0 THEN [b |-> TRUE, ctr |-> ctr]
  ELSE LET h == eq(Head(xs), Head(ys), ctr)
       IN  IF h.b THEN eq_list(Tail(xs), Tail(ys), h.ctr) ELSE h

BinderEq(a, b, ctr) ==
  IF b.tag # a.tag THEN [b |-> FALSE, ctr |-> ctr]
  ELSE IF VarEq(a.variable, b.variable) THEN eq(a.term, b.term, ctr)
  ELSE LET r == replace(b.term, b.variable, a.variable, FALSE, ctr)
       IN  eq(a.term, r.e, r.ctr)

eq(a, b, ctr) ==
  CASE IsVar(a) -> [b |-> VarEq(a, b), ctr |-> ctr]
    [] IsApp(a) ->
         IF ~IsApp(b) THEN [b |-> FALSE, ctr |-> ctr]
         ELSE LET f == eq(a.function, b.function, ctr)
              IN  IF f.b THEN eq_list(a.args, b.args, f.ctr) ELSE f
    [] IsBinder(a) -> BinderEq(a, b, ctr)
    [] IsNeg(a) ->
         IF ~IsNeg(b) THEN [b |-> FALSE, ctr |-> ctr] ELSE eq(a.term, b.term, ctr)
    [] IsBool(a) ->
         IF b.tag # a.tag THEN [b |-> FALSE, ctr |-> ctr]
         ELSE LET f == eq(a.first, b.first, ctr)
              IN  IF f.b THEN eq(a.second, b.second, f.ctr) ELSE f

(***************************************************************************)
(* simplify.  fuel bounds the nesting of beta steps; ok = FALSE stands for *)
(* a call that does not return (the caller never sees a value).            *)
(***************************************************************************)
RECURSIVE simplify(_, _, _), simplify_args(_, _, _), simplify_loop(_, _, _, _)

NegatedSimplify(e, ctr, fuel) == [ok |-> TRUE, e |-> e, ctr |-> ctr]

\* [arg.simplify() for arg in self.args]
simplify_args(args, ctr, fuel) ==
  IF Len(args) = 0 THEN [ok |-> TRUE, es |-> <<>>, ctr |-> ctr]
  ELSE LET h == simplify(Head(args), ctr, fuel)
           t == simplify_args(Tail(args), h.ctr, fuel)
       IN  IF ~h.ok THEN [ok |-> FALSE, es |-> <<>>, ctr |-> h.ctr]
           ELSE [ok |-> t.ok, es |-> <<h.e>> \o t.es, ctr |-> t.ctr]

\* a slip: the body is substituted into and not simplified again
simplify_loop_once(accum, args, ctr, fuel) ==
  IF Len(args) = 0 THEN [ok |-> TRUE, e |-> accum, ctr |-> ctr]
  ELSE LET a == simplify(Head(args), ctr, fuel)
       IN  IF ~a.ok THEN a
           ELSE IF accum.tag = "LambdaExpression"
           THEN LET r == replace(accum.term, accum.variable, a.e, FALSE, a.ctr)
                IN  simplify_loop(r.e, Tail(args), r.ctr, fuel)
           ELSE simplify_loop(ApplicationExpression(accum, <<a.e>>), Tail(args), a.ctr, fuel)

\* for arg in self.args: ...
simplify_loop(accum, args, ctr, fuel) ==
  IF Len(args) = 0 THEN [ok |-> TRUE, e |-> accum, ctr |-> ctr]
  ELSE LET a == simplify(Head(args), ctr, fuel)
       IN  IF ~a.ok THEN a
           ELSE IF accum.tag = "LambdaExpression"
           THEN IF fuel = 0 THEN [ok |-> FALSE, e |-> accum, ctr |-> a.ctr]
                ELSE LET r == replace(accum.term, accum.variable, a.e, FALSE, a.ctr)
                         s == simplify(r.e, r.ctr, fuel - 1)
                     IN  IF ~s.ok THEN s ELSE simplify_loop(s.e, Tail(args), s.ctr, fuel)
           ELSE simplify_loop(ApplicationExpression(accum, <<a.e>>), Tail(args), a.ctr, fuel)

ApplicationSimplify(e, ctr, fuel) ==
  LET accum == simplify(e.function, ctr, fuel)
  IN  IF ~accum.ok THEN accum
      ELSE IF accum.e.tag = "LambdaExpression"
      THEN simplify_loop(accum.e, e.args, accum.ctr, fuel)
      ELSE LET a == simplify_args(e.args, accum.ctr, fuel)
           IN  [ok |-> a.ok, e |-> ApplicationExpression(accum.e, a.es), ctr |-> a.ctr]

simplify(e, ctr, fuel) ==
  CASE IsVar(e) -> [ok |-> TRUE, e |-> e, ctr |-> ctr]
    [] IsApp(e) -> ApplicationSimplify(e, ctr, fuel)
    [] IsBinder(e) ->
         LET t == simplify(e.term, ctr, fuel)
         IN  [ok |-> t.ok, e |-> VariableBinderExpression(e.tag, e.variable, t.e), ctr |-> t.ctr]
    [] IsNeg(e) -> NegatedSimplify(e, ctr, fuel)
    [] IsBool(e) ->
         LET a == simplify(e.first, ctr, fuel)
             b == simplify(e.second, a.ctr, fuel)
         IN  IF ~a.ok THEN a
             ELSE [ok |-> b.ok, e |-> BooleanExpression(e.tag, a.e, b.e), ctr |-> b.ctr]

(***************************************************************************)
(* __str__                                                                 *)
(***************************************************************************)
getPredicate(e) == IF e.tag = "ExistsExpression" THEN Tokens_EXISTS[n + 1] ELSE Tokens_ALL[n + 1]

getOp(e) ==
  CASE e.tag = "AndExpression" -> Tokens_AND[n + 1]
    [] e.tag = "OrExpression" -> Tokens_OR[n + 1]
    [] e.tag = "ImpExpression" -> Tokens_IMP[n + 1]
    [] e.tag = "IffExpression" -> Tokens_IFF[n + 1]
    [] e.tag = "EqualityExpression" -> Tokens_EQ[n + 1]

RECURSIVE str(_), str_args(_)

\* [str(arg) for arg in self.args]
str_args(args) == IF Len(args) = 0 THEN <<>> ELSE <<str(Head(args))>> \o str_args(Tail(args))

ApplicationStr(e) ==
  LET function == str(e.function)
      parens ==
        IF e.function.tag = "LambdaExpression"
        THEN IF IsApp(e.function.term)
             THEN ~IsVar(e.function.term.function)
             ELSE ~IsBool(e.function.term)
        ELSE IsApp(e.function)
  IN  (IF parens THEN Tokens_OPEN \o function \o Tokens_CLOSE ELSE function)
        \o Tokens_OPEN \o Join(str_args(e.args), <<",">>) \o Tokens_CLOSE

str(e) ==
  CASE IsVar(e) -> e.name
    [] IsApp(e) -> ApplicationStr(e)
    [] e.tag = "LambdaExpression" ->
         Tokens_LAMBDA[n + 1] \o str(e.variable) \o Tokens_DOT[n + 1] \o str(e.term)
    [] e.tag \in {"ExistsExpression", "AllExpression"} ->
         getPredicate(e) \o <<" ">> \o str(e.variable) \o Tokens_DOT[n + 1] \o str(e.term)
    [] IsNeg(e) -> Tokens_NOT[n + 1] \o str(e.term)
    [] IsBool(e) ->
         Tokens_OPEN \o str(e.first) \o <<" ">> \o getOp(e) \o <<" ">> \o str(e.second)
           \o Tokens_CLOSE

(***************************************************************************)
(* class StringTrie.  A trie node is the set of the strings inserted into  *)
(* it: its keys are their first characters (and LEAF when the empty string *)
(* was inserted), and the child under key c holds their tails.             *)
(***************************************************************************)
StringTrie(strings) == {strings[i] : i \in DOMAIN strings}

\* "c in st", for a one-character c (which is never the LEAF key)
TrieHas(st, c) == \E s \in st : Len(s) > 0 /\ s[1] = c

\* st[c]
TrieGet(st, c) == {Tail(s) : s \in {t \in st : Len(t) > 0 /\ t[1] = c}}

(***************************************************************************)
(* LogicParser.process                                                     *)
(***************************************************************************)
get_all_symbols == Tokens_SYMBOLS

RECURSIVE process_walk(_, _, _), process_loop(_, _, _)

\* the inner "while c in st" loop; c is the character of text after token
process_walk(st, text, token) ==
  LET c == text[Len(token) + 1]
  IN  IF TrieHas(st, c)
      THEN IF Len(text) > Len(token) + 1
           THEN process_walk(TrieGet(st, c), text, token \o <<c>>)
           ELSE token \o <<c>>
      ELSE token

\* the outer "while data" loop
process_loop(tokenTrie, text, out) ==
  IF Len(text) = 0 THEN out
  ELSE LET token == process_walk(tokenTrie, text, <<>>)
       IN  IF Len(token) > 0
           THEN process_loop(tokenTrie, SubSeq(text, Len(token) + 1, Len(text)),
                             out \o <<" ">> \o token \o <<" ">>)
           ELSE process_loop(tokenTrie, Tail(text), out \o <<text[1]>>)

process(text) == process_loop(StringTrie(get_all_symbols), text, <<>>)

\* WhitespaceTokenizer().tokenize: the maximal runs of non-whitespace
Whitespace == {" ", "\t", "\n"}

IsTokenStart(text, i) ==
  text[i] \notin Whitespace /\ (i = 1 \/ text[i - 1] \in Whitespace)

IsTokenEnd(text, j) ==
  text[j] \notin Whitespace /\ (j = Len(text) \/ text[j + 1] \in Whitespace)

\* the tokens that start at position from or later
RECURSIVE tokens_from(_, _)
tokens_from(text, from) ==
  IF \A i \in from..Len(text) : ~IsTokenStart(text, i) THEN <<>>
  ELSE LET s == CHOOSE i \in from..Len(text) :
                  IsTokenStart(text, i) /\ \A j \in from..(i - 1) : ~IsTokenStart(text, j)
           e == CHOOSE j \in s..Len(text) :
                  IsTokenEnd(text, j) /\ \A k \in s..(j - 1) : ~IsTokenEnd(text, k)
       IN  <<SubSeq(text, s, e)>> \o tokens_from(text, e + 1)

tokenize(text) == tokens_from(text, 1)

(***************************************************************************)
(* LogicParser.  buf is _buffer and idx is _currentIndex (counted from 0). *)
(* A parsing method returns ok, the expr e and the index after it;   *)
(* ok = FALSE is a raised exception, named by err.                         *)
(***************************************************************************)
NoExpr == VariableExpression(<<>>)

Raise(err, idx) == [ok |-> FALSE, e |-> NoExpr, idx |-> idx, err |-> err]
Return(e, idx) == [ok |-> TRUE, e |-> e, idx |-> idx, err |-> "none"]

inRange(buf, idx, location) == idx + location < Len(buf)

isvariable(tok) == ~InList(tok, Tokens_TOKENS)

get_BooleanExpression_factory(opTok) ==
  CASE InList(opTok, Tokens_AND) -> "AndExpression"
    [] InList(opTok, Tokens_OR) -> "OrExpression"
    [] InList(opTok, Tokens_IMP) -> "ImpExpression"
    [] InList(opTok, Tokens_IFF) -> "IffExpression"
    [] InList(opTok, Tokens_EQ) -> "EqualityExpression"
    [] OTHER -> "None"

get_QuantifiedExpression_factory(tok) ==
  IF InList(tok, Tokens_EXISTS) THEN "ExistsExpression" ELSE "AllExpression"

\* accum = factory(vars.pop(), accum) while vars
RECURSIVE wrap_binders(_, _, _)
wrap_binders(cls, vs, accum) ==
  IF Len(vs) = 0 THEN accum
  ELSE wrap_binders(cls, SubSeq(vs, 1, Len(vs) - 1),
                    VariableBinderExpression(cls, vs[Len(vs)], accum))

\* accum = make_ApplicationExpression(accum, [arg]) for each argument in turn
RECURSIVE curry(_, _)
curry(accum, args) ==
  IF Len(args) = 0 THEN accum
  ELSE curry(ApplicationExpression(accum, <<Head(args)>>), Tail(args))

RECURSIVE parse_Expression(_, _), handle_variable(_, _, _), handle_lambda(_, _, _),
          handle_quant(_, _, _), handle_open(_, _, _), attempt_BooleanExpression(_, _, _),
          attempt_ApplicationExpression(_, _, _), gather_args(_, _), more_args(_, _, _),
          lambda_vars(_, _, _), quant_vars(_, _, _)

\* while self.token(0) == Tokens.COMMA: swallow it and parse one more argument
more_args(buf, idx, acc) ==
  IF ~inRange(buf, idx, 0) THEN [ok |-> FALSE, es |-> acc, idx |-> idx, err |-> "UnexpectedTokenException"]
  ELSE IF buf[idx + 1] = Tokens_COMMA
  THEN LET h == parse_Expression(buf, idx + 1)
       IN  IF h.ok THEN more_args(buf, h.idx, acc \o <<h.e>>)
           ELSE [ok |-> FALSE, es |-> acc, idx |-> h.idx, err |-> h.err]
  ELSE [ok |-> TRUE, es |-> acc, idx |-> idx, err |-> "none"]

\* the argument list up to and including assertToken(self.token(), Tokens.CLOSE)
gather_args(buf, idx) ==
  IF ~inRange(buf, idx, 0) THEN [ok |-> FALSE, es |-> <<>>, idx |-> idx, err |-> "UnexpectedTokenException"]
  ELSE LET h == parse_Expression(buf, idx)
           a == IF buf[idx + 1] # Tokens_CLOSE
                THEN IF h.ok THEN more_args(buf, h.idx, <<h.e>>)
                     ELSE [ok |-> FALSE, es |-> <<>>, idx |-> h.idx, err |-> h.err]
                ELSE [ok |-> TRUE, es |-> <<>>, idx |-> idx, err |-> "none"]
       IN  IF ~a.ok THEN a
           ELSE IF ~inRange(buf, a.idx, 0)
           THEN [ok |-> FALSE, es |-> a.es, idx |-> a.idx, err |-> "UnexpectedTokenException"]
           ELSE [ok |-> buf[a.idx + 1] = Tokens_CLOSE, es |-> a.es, idx |-> a.idx + 1,
                 err |-> IF buf[a.idx + 1] = Tokens_CLOSE THEN "none"
                         ELSE "UnexpectedTokenException"]

handle_variable(tok, buf, idx) ==
  IF inRange(buf, idx, 0) /\ buf[idx + 1] = Tokens_OPEN
  THEN LET a == gather_args(buf, idx + 1)
       IN  IF ~a.ok THEN Raise(a.err, a.idx)
           ELSE attempt_BooleanExpression(
                  ApplicationExpression(VariableExpression(tok), a.es), buf, a.idx)
  ELSE Return(VariableExpression(tok), idx)

\* the "while True" loop of handle_lambda, entered with the first variable taken
lambda_vars(buf, idx, vs) ==
  IF ~inRange(buf, idx, 0) THEN [ok |-> FALSE, vs |-> vs, idx |-> idx]
  ELSE IF isvariable(buf[idx + 1])
  THEN lambda_vars(buf, idx + 1, vs \o <<VariableExpression(buf[idx + 1])>>)
  ELSE IF ~InList(buf[idx + 1], Tokens_DOT) THEN [ok |-> FALSE, vs |-> vs, idx |-> idx + 1]
  ELSE IF ~inRange(buf, idx, 1) THEN [ok |-> FALSE, vs |-> vs, idx |-> idx + 1]
  ELSE IF InList(buf[idx + 2], Tokens_LAMBDA) THEN lambda_vars(buf, idx + 2, vs)
  ELSE [ok |-> TRUE, vs |-> vs, idx |-> idx + 1]

handle_lambda(tok, buf, idx) ==
  IF ~inRange(buf, idx, 0) THEN Raise("UnexpectedTokenException", idx)
  ELSE LET v == lambda_vars(buf, idx + 1, <<VariableExpression(buf[idx + 1])>>)
           body == parse_Expression(buf, v.idx)
           app == attempt_ApplicationExpression(
                    wrap_binders("LambdaExpression", v.vs, body.e), buf, body.idx)
       IN  IF ~v.ok THEN Raise("UnexpectedTokenException", v.idx)
           ELSE IF ~body.ok THEN body
           ELSE IF ~app.ok THEN app
           ELSE attempt_BooleanExpression(app.e, buf, app.idx)

\* "while self.isvariable(self.token(0))" and the assertToken of the dot
quant_vars(buf, idx, vs) ==
  IF ~inRange(buf, idx, 0) THEN [ok |-> FALSE, vs |-> vs, idx |-> idx]
  ELSE IF isvariable(buf[idx + 1])
  THEN quant_vars(buf, idx + 1, vs \o <<VariableExpression(buf[idx + 1])>>)
  ELSE IF ~InList(buf[idx + 1], Tokens_DOT) THEN [ok |-> FALSE, vs |-> vs, idx |-> idx + 1]
  ELSE [ok |-> TRUE, vs |-> vs, idx |-> idx + 1]

handle_quant(tok, buf, idx) ==
  IF ~inRange(buf, idx, 0) THEN Raise("UnexpectedTokenException", idx)
  ELSE LET v == quant_vars(buf, idx + 1, <<VariableExpression(buf[idx + 1])>>)
           term == parse_Expression(buf, v.idx)
       IN  IF ~v.ok THEN Raise("UnexpectedTokenException", v.idx)
           ELSE IF ~term.ok THEN term
           ELSE attempt_BooleanExpression(
                  wrap_binders(get_QuantifiedExpression_factory(tok), v.vs, term.e),
                  buf, term.idx)

handle_open(tok, buf, idx) ==
  LET inner == parse_Expression(buf, idx)
      newExpression == attempt_BooleanExpression(inner.e, buf, inner.idx)
  IN  IF ~inner.ok THEN inner
      ELSE IF ~newExpression.ok THEN newExpression
      ELSE IF ~inRange(buf, newExpression.idx, 0)
      THEN Raise("UnexpectedTokenException", newExpression.idx)
      ELSE IF buf[newExpression.idx + 1] = Tokens_CLOSE
      THEN attempt_ApplicationExpression(newExpression.e, buf, newExpression.idx + 1)
      ELSE Raise("UnexpectedTokenException", newExpression.idx + 1)

attempt_BooleanExpression(expr, buf, idx) ==
  IF inRange(buf, idx, 0) /\ get_BooleanExpression_factory(buf[idx + 1]) # "None"
  THEN LET second == parse_Expression(buf, idx + 1)
       IN  IF ~second.ok THEN second
           ELSE Return(BooleanExpression(get_BooleanExpression_factory(buf[idx + 1]),
                                         expr, second.e), second.idx)
  ELSE Return(expr, idx)

\* a slip: only a LambdaExpression may take arguments
attempt_ApplicationExpression_lambda_only(expr, buf, idx) ==
  IF inRange(buf, idx, 0) /\ buf[idx + 1] = Tokens_OPEN
  THEN IF expr.tag # "LambdaExpression"
       THEN Raise("ParseException", idx)
       ELSE LET a == gather_args(buf, idx + 1)
            IN  IF ~a.ok THEN Raise(a.err, a.idx)
                ELSE attempt_ApplicationExpression(curry(expr, a.es), buf, a.idx)
  ELSE Return(expr, idx)

attempt_ApplicationExpression(expr, buf, idx) ==
  IF inRange(buf, idx, 0) /\ buf[idx + 1] = Tokens_OPEN
  THEN IF expr.tag # "LambdaExpression" /\ ~IsApp(expr)
       THEN Raise("ParseException", idx)
       ELSE LET a == gather_args(buf, idx + 1)
                retEx == IF expr.tag = "LambdaExpression"
                         THEN curry(expr, a.es)
                         ELSE ApplicationExpression(expr, a.es)
            IN  IF ~a.ok THEN Raise(a.err, a.idx)
                ELSE attempt_ApplicationExpression(retEx, buf, a.idx)
  ELSE Return(expr, idx)

parse_Expression(buf, idx) ==
  IF ~inRange(buf, idx, 0) THEN Raise("UnexpectedTokenException", idx)
  ELSE LET tok == buf[idx + 1]
       IN  CASE isvariable(tok) -> handle_variable(tok, buf, idx + 1)
             [] InList(tok, Tokens_NOT) ->
                  LET t == parse_Expression(buf, idx + 1)
                  IN  IF t.ok THEN Return(NegatedExpression(t.e), t.idx) ELSE t
             [] InList(tok, Tokens_LAMBDA) -> handle_lambda(tok, buf, idx + 1)
             [] InList(tok, Tokens_QUANTS) -> handle_quant(tok, buf, idx + 1)
             [] tok = Tokens_OPEN -> handle_open(tok, buf, idx + 1)
             [] OTHER -> Raise("UnexpectedTokenException", idx + 1)

\* LogicParser.parse: trailing tokens after the expr are an error
parse(text) ==
  LET buf == tokenize(process(text))
      r == parse_Expression(buf, 0)
  IN  [buf |-> buf,
       r |-> IF r.ok /\ inRange(buf, r.idx, 0)
             THEN Raise("UnexpectedTokenException", r.idx) ELSE r]

(***************************************************************************)
(* The expressions the algebra is exercised on                             *)
(***************************************************************************)
MaxCounter == 1
MaxFuel == 3

Names == {<<"x">>, <<"y">>, <<"z", "1">>}
Vars == {VariableExpression(nm) : nm \in Names}

X == VariableExpression(<<"x">>)
Y == VariableExpression(<<"y">>)

Binders(classes, terms) ==
  {VariableBinderExpression(c, v, t) : c \in classes, v \in Vars, t \in terms}

Level1 ==
  Vars \cup Binders({"LambdaExpression", "ExistsExpression"}, Vars)
       \cup {NegatedExpression(t) : t \in Vars}
       \cup {BooleanExpression("AndExpression", a, b) : a \in Vars, b \in Vars}
       \cup {ApplicationExpression(f, <<a>>) : f \in Vars, a \in Vars}
       \cup {ApplicationExpression(f, <<>>) : f \in Vars}

\* arguments: variables, a redex, a self-application, lambdas
Operands ==
  Vars \cup {ApplicationExpression(LambdaExpression(X, X), <<Y>>),
             LambdaExpression(X, ApplicationExpression(X, <<X>>)),
             LambdaExpression(Y, X),
             ApplicationExpression(VariableExpression(<<"z", "1">>), <<X>>)}

Lambdas1 == {e \in Level1 : e.tag = "LambdaExpression"}

SelfExprs ==
  Level1 \cup Binders(BinderClasses, Level1)
         \cup {NegatedExpression(t) : t \in Level1}
         \cup {BooleanExpression(c, a, b) :
                 c \in {"AndExpression", "EqualityExpression"}, a \in Level1, b \in Vars}
         \cup {ApplicationExpression(f, <<a>>) : f \in Level1, a \in Operands}
         \cup {ApplicationExpression(f, <<a, b>>) : f \in Lambdas1, a \in Operands, b \in Vars}
         \cup {ApplicationExpression(LambdaExpression(v, t), <<a>>) :
                 v \in Vars, t \in Level1, a \in Operands}

Init ==
  /\ counter \in 0..MaxCounter
  /\ buffer = <<>>
  /\ currentIndex = 0
  /\ data = <<>>
  /\ self \in SelfExprs
  /\ variable = NoExpr
  /\ expression = NoExpr
  /\ op = "init"
  /\ result = NoExpr
  /\ raised = "none"

\* result = self.replace(variable, expression)
Replace(v, e) ==
  /\ op = "init"
  /\ \E r \in {replace(self, v, e, FALSE, counter)} :
         /\ result' = r.e
         /\ counter' = r.ctr
  /\ variable' = v
  /\ expression' = e
  /\ op' = "replace"
  /\ UNCHANGED <<buffer, currentIndex, data, self, raised>>

\* result = self.alpha_convert(newvar)
AlphaConvert(newvar) ==
  /\ op = "init"
  /\ IsBinder(self)
  /\ \E r \in {alpha_convert(self, newvar, counter)} :
         /\ result' = r.e
         /\ counter' = r.ctr
  /\ variable' = newvar
  /\ op' = "alpha_convert"
  /\ UNCHANGED <<buffer, currentIndex, data, self, expression, raised>>

\* result = self.simplify(); a call that does not come back ends in Python's
\* "maximum recursion depth exceeded" RuntimeError
Simplify ==
  /\ op = "init"
  /\ \E r \in {simplify(self, counter, MaxFuel)} :
         /\ result' = IF r.ok THEN r.e ELSE NoExpr
         /\ raised' = IF r.ok THEN "none" ELSE "RuntimeError"
         /\ counter' = r.ctr
  /\ op' = "simplify"
  /\ UNCHANGED <<buffer, currentIndex, data, self, variable, expression>>

\* result = (self == other)
Equals(o) ==
  /\ op = "init"
  /\ \E r \in {eq(self, o, counter)} :
         /\ result' = r.b
         /\ counter' = r.ctr
  /\ expression' = o
  /\ op' = "eq"
  /\ UNCHANGED <<buffer, currentIndex, data, self, variable, raised>>

(***************************************************************************)
(* The texts the parser is exercised on                                    *)
(***************************************************************************)
MaxToks == 4
MaxLen == 4

\* the texts parsed by demo() and by the module's main block
DemoInputs ==
  {<<"j","o","h","n">>,
   <<"m","a","n","(","x",")">>,
   <<"-","m","a","n","(","x",")">>,
   <<"(","m","a","n","(","x",")"," ","&"," ","t","a","l","l","(","x",")"," ","&"," ","w","a","l","k","s","(","x",")",")">>,
   <<"e","x","i","s","t","s"," ","x",".","(","m","a","n","(","x",")"," ","&"," ","t","a","l","l","(","x",")",")">>,
   <<"\\","x",".","m","a","n","(","x",")">>,
   <<"\\","x",".","m","a","n","(","x",")","(","j","o","h","n",")">>,
   <<"\\","x"," ","y",".","s","e","e","s","(","x",",","y",")">>,
   <<"\\","x"," "," ","y",".","s","e","e","s","(","x",",","y",")","(","a",",","b",")">>,
   <<"(","\\","x",".","e","x","i","s","t","s"," ","y",".","w","a","l","k","s","(","x",",","y",")",")","(","x",")">>,
   <<"e","x","i","s","t","s"," ","x",".","(","x"," ","="," ","j","o","h","n",")">>,
   <<"\\","P"," ","Q",".","e","x","i","s","t","s"," ","x",".","(","P","(","x",")"," ","&"," ","Q","(","x",")",")">>,
   <<"\\","x",".","\\","y",".","s","e","e","s","(","x",",","y",")","(","j","o","h","n",")","(","m","a","r","y",")">>,
   <<"\\","x",".","\\","y",".","s","e","e","s","(","x",",","y",")","(","j","o","h","n",","," ","m","a","r","y",")">>,
   <<"e","x","i","s","t","s"," ","x",".","(","m","a","n","(","x",")"," ","&"," ","(","\\","x",".","e","x","i","s","t","s"," ","y",".","w","a","l","k","s","(","x",",","y",")",")","(","x",")",")">>,
   <<"(","(","\\","P",".","\\","Q",".","e","x","i","s","t","s"," ","x",".","(","P","(","x",")"," ","&"," ","Q","(","x",")",")",")","(","\\","x",".","d","o","g","(","x",")",")",")","(","\\","x",".","b","a","r","k","(","x",")",")">>,
   <<"e","x","i","s","t","s"," ","x",".","P","(","x",")">>,
   <<"\\","x",".","m","a","n","(","x",")"," ","j","o","h","n">>,
   <<"\\","P",".","P","(","x",")"," ","\\","x",".","m","a","n","(","x",")">>,
   <<"\\","P",".","P","(","x",")","(","\\","x",".","m","a","n","(","x",")",")">>,
   <<"e","x","i","s","t","s"," ","b",".","a","(","b",")"," ","&"," ","a","(","b",")">>,
   <<"(","e","x","i","s","t","s"," ","b",".","a","(","b",")",")"," ","&"," ","a","(","b",")">>,
   <<"\\","x",".","(","P","(","x",")",")","(","y",")">>}

PNames == {<<"x">>, <<"P">>}
Ops == {<<"&">>, <<" ", "-", ">", " ">>, <<" ", "a", "n", "d", " ">>}

Paren(t) == <<"(">> \o t \o <<")">>
Lam(v, t) == <<"\\">> \o v \o <<".">> \o t
Quant(q, v, t) == q \o <<" ">> \o v \o <<".">> \o t

PredApps ==
  {f \o Paren(a) : f \in PNames, a \in PNames}
    \cup {f \o Paren(<<>>) : f \in PNames}
    \cup {f \o Paren(a \o <<",">> \o b) : f \in PNames, a \in PNames, b \in PNames}

Px == <<"P", "(", "x", ")">>

\* one atom of each kind of the grammar
Atoms == {<<"x">>, <<"P">>, Px, Lam(<<"x">>, <<"x">>), Quant(Tokens_EXISTS[2], <<"x">>, <<"x">>),
          Quant(Tokens_ALL[2], <<"x">>, Px), Paren(<<"x">>), <<"-">> \o <<"x">>}

Bodies == PNames \cup {Px} \cup {Paren(a \o o \o b) : a \in {<<"x">>, Px}, o \in Ops, b \in PNames}
LambdaTexts == {Lam(v, t) : v \in PNames, t \in Bodies}

Sentences ==
  PredApps \cup Atoms \cup LambdaTexts
    \cup {a \o o \o b : a \in Atoms, o \in Ops, b \in Atoms}
    \cup {Paren(a \o o \o b) : a \in Atoms, o \in Ops, b \in Atoms}
    \cup {Paren(a \o o1 \o b \o o2 \o c) :
            a \in Atoms, o1 \in Ops, b \in Atoms, o2 \in Ops, c \in Atoms}
    \cup {Paren(l) \o Paren(a) : l \in LambdaTexts, a \in PNames}
    \cup {l \o Paren(a) : l \in LambdaTexts, a \in PNames \cup {<<>>, <<"x", ",", "P">>}}
    \cup {Paren(p) \o Paren(a) : p \in PredApps, a \in PNames \cup {<<>>}}
    \cup {Lam(v, Paren(p) \o Paren(a)) : v \in PNames, p \in PredApps, a \in PNames}
    \cup {Paren(a) \o Paren(b) : a \in Atoms, b \in PNames}

\* every text of at most k tokens, each preceded by a space
RawTokens == {<<"x">>, <<"(">>, <<")">>, <<"\\">>, <<".">>, <<"&">>, <<"a", "l", "l">>}

RECURSIVE RawTexts(_)
RawTexts(k) ==
  IF k = 0 THEN {<<>>}
  ELSE LET shorter == RawTexts(k - 1)
       IN  shorter \cup {t \o <<" ">> \o tok : t \in shorter, tok \in RawTokens}

\* every text of at most k characters that symbols are made of
Chars == {"<", "-", ">", "=", "x", " "}

RECURSIVE CharTexts(_)
CharTexts(k) ==
  IF k = 0 THEN {<<>>}
  ELSE LET shorter == CharTexts(k - 1)
       IN  shorter \cup {t \o <<c>> : t \in shorter, c \in Chars}

Inputs == DemoInputs \cup Sentences \cup RawTexts(MaxToks) \cup CharTexts(MaxLen)

InitParser ==
  /\ counter = 0
  /\ buffer = <<>>
  /\ currentIndex = 0
  /\ data \in Inputs
  /\ self = NoExpr
  /\ variable = NoExpr
  /\ expression = NoExpr
  /\ op = "init"
  /\ result = NoExpr
  /\ raised = "none"

\* result = lp.process(data)
Process ==
  /\ op = "init"
  /\ result' = process(data)
  /\ op' = "process"
  /\ UNCHANGED <<counter, buffer, currentIndex, data, self, variable, expression, raised>>

\* result = lp.parse(data), of a first text or of a printed expression
Parse ==
  /\ op \in {"init", "str"}
  /\ \E p \in {parse(data)} :
         /\ buffer' = p.buf
         /\ currentIndex' = p.r.idx
         /\ result' = p.r.e
         /\ raised' = p.r.err
  /\ op' = "parse"
  /\ UNCHANGED <<counter, data, self, variable, expression>>

\* data = str(e) for the expression e that parse returned
Str ==
  /\ op = "parse"
  /\ raised = "none"
  /\ self = NoExpr
  /\ data' = str(result)
  /\ self' = result
  /\ result' = str(result)
  /\ op' = "str"
  /\ UNCHANGED <<counter, buffer, currentIndex, variable, expression, raised>>

NextParser ==
  \/ Process
  \/ Parse
  \/ Str

SpecParser == InitParser /\ [][NextParser]_vars

Next ==
  \/ \E v \in Vars, e \in Operands : Replace(v, e)
  \/ \E w \in Vars : AlphaConvert(w)
  \/ Simplify
  \/ \E o \in Level1 : Equals(o)

Spec == Init /\ [][Next]_vars

(***************************************************************************)
(* Properties                                                              *)
(***************************************************************************)

\* C1: Binder(u, M).replace(v, e) with u free in e, u # v and v free in M
\* returns a binder of the same class whose bound variable is not u.
C1_CaptureAvoidance ==
  (/\ op = "replace"
   /\ IsBinder(self)
   /\ self.variable \in free(expression)
   /\ self.variable # variable
   /\ variable \in free(self.term))
    => (result.tag = self.tag /\ result.variable # self.variable)

\* C2: == is reflexive, symmetric and transitive.
C2_Equivalence ==
  op = "eq" =>
    /\ eq(self, self, counter).b
    /\ eq(expression, expression, counter).b
    /\ result => eq(expression, self, counter).b
    /\ \A c \in Level1 :
         (result /\ eq(expression, c, counter).b) => eq(self, c, counter).b

IsBetaRedex(e) ==
  IsApp(e) /\ Len(e.args) = 1 /\ e.function.tag = "LambdaExpression"

\* C3: App(Lambda(u, M), [e]).simplify() == M.replace(u, e).simplify(),
\* whenever both calls return.
C3_BetaLaw ==
  (op = "simplify" /\ raised = "none" /\ IsBetaRedex(self)) =>
    LET m == replace(self.function.term, self.function.variable, self.args[1], FALSE, counter)
        r == simplify(m.e, m.ctr, MaxFuel)
    IN  r.ok => eq(result, r.e, r.ctr).b

\* C4: e.simplify().simplify() == e.simplify(), whenever e.simplify() returns.
C4_SimplifyIdempotent ==
  (op = "simplify" /\ raised = "none") =>
    LET again == simplify(result, counter, MaxFuel)
    IN  again.ok /\ eq(again.e, result, again.ctr).b

\* C4 witness: a two-argument application of a lambda whose head stopped being
\* a lambda after the first argument, so the second was wrapped, not reduced.
C4_Witness ==
  /\ op = "simplify"
  /\ raised = "none"
  /\ IsApp(self)
  /\ Len(self.args) = 2
  /\ self.function.tag = "LambdaExpression"
  /\ IsApp(result)
  /\ Len(result.args) = 1
  /\ result.args[1] = self.args[2]

\* C5: printing a parsed expression and parsing the text gives an equal expression.
C5_RoundTrip ==
  (op = "parse" /\ self # NoExpr) => (raised = "none" /\ eq(result, self, counter).b)

\* texts "(f(a))(b)" and "\v.(f(a))(b)": a parenthesized predicate application
\* followed by a parenthesized argument
ParenApp(f, a, b) == Paren(f \o Paren(a)) \o Paren(b)

ParenAppTexts ==
  {ParenApp(f, a, b) : f \in PNames, a \in PNames, b \in PNames}
    \cup {Lam(v, ParenApp(f, a, b)) : v \in PNames \cup {<<"y">>}, f \in PNames, a \in PNames,
                                      b \in PNames \cup {<<"y">>}}

\* C6 as stated: parsing such a text fails with a parse error.
C6_ParenAppRejected ==
  (op = "parse" /\ self = NoExpr /\ data \in ParenAppTexts) => raised # "none"

AppApp(f, a, b) ==
  ApplicationExpression(
    ApplicationExpression(VariableExpression(f), <<VariableExpression(a)>>),
    <<VariableExpression(b)>>)

\* C6 amended: parsing "(f(a))(b)" returns the application of f(a) to b, and
\* parsing "\v.(f(a))(b)" returns the lambda of v over it.
C6_ParenAppApplied ==
  (op = "parse" /\ self = NoExpr) =>
    \A f \in PNames, a \in PNames, b \in PNames \cup {<<"y">>} :
      /\ data = ParenApp(f, a, b) => (raised = "none" /\ result = AppApp(f, a, b))
      /\ \A v \in PNames :
           data = Lam(v, ParenApp(f, a, b)) =>
             (raised = "none"
              /\ result = LambdaExpression(VariableExpression(v), AppApp(f, a, b)))

\* C6 witness: the text of the module's main block has been parsed.
C6_Witness ==
  /\ op = "parse"
  /\ self = NoExpr
  /\ data = Lam(<<"x">>, ParenApp(<<"P">>, <<"x">>, <<"y">>))
  /\ raised = "none"
  /\ result = LambdaExpression(X, AppApp(<<"P">>, <<"x">>, <<"y">>))

RECURSIVE ArgsNonEmpty(_)
ArgsNonEmpty(e) ==
  CASE IsVar(e) -> TRUE
    [] IsApp(e) -> /\ Len(e.args) > 0
                   /\ ArgsNonEmpty(e.function)
                   /\ \A i \in DOMAIN e.args : ArgsNonEmpty(e.args[i])
    [] IsBinder(e) -> ArgsNonEmpty(e.term)
    [] IsNeg(e) -> ArgsNonEmpty(e.term)
    [] IsBool(e) -> ArgsNonEmpty(e.first) /\ ArgsNonEmpty(e.second)

\* C7: every ApplicationExpression inside a parsed expression has arguments.
C7_ArgsNonEmpty ==
  (op = "parse" /\ raised = "none") => ArgsNonEmpty(result)

\* the atoms C8 names: solo variable, predicate application, lambda,
\* quantifier, parenthesized expression
C8_Atoms == {<<"x">>, <<"P">>, Px, Lam(<<"x">>, <<"x">>),
             Quant(Tokens_EXISTS[2], <<"x">>, <<"x">>), Paren(<<"x">>)}

\* C8: "(A op1 B op2 C)" parses to op1(A, op2(B, C)).
C8_RightAssociative ==
  (op = "parse" /\ self = NoExpr /\ Len(data) > 0 /\ data[1] = "(") =>
    \A a \in C8_Atoms, b \in C8_Atoms, c \in C8_Atoms, o1 \in Ops, o2 \in Ops :
      data = Paren(a \o o1 \o b \o o2 \o c) =>
        /\ raised = "none"
        /\ result =
             BooleanExpression(get_BooleanExpression_factory(tokenize(o1)[1]),
               parse(a).r.e,
               BooleanExpression(get_BooleanExpression_factory(tokenize(o2)[1]),
                 parse(b).r.e, parse(c).r.e))

\* every variable that occurs in e, bound variables included
RECURSIVE occurs(_)
occurs(e) ==
  CASE IsVar(e) -> {e}
    [] IsApp(e) -> occurs(e.function) \cup UNION {occurs(e.args[i]) : i \in DOMAIN e.args}
    [] IsBinder(e) -> {e.variable} \cup occurs(e.term)
    [] IsNeg(e) -> occurs(e.term)
    [] IsBool(e) -> occurs(e.first) \cup occurs(e.second)

\* C9: free(B.alpha_convert(w)) = free(B) for w that occurs nowhere in B.
C9_FreeIgnoresRenaming ==
  (op = "alpha_convert" /\ variable \notin occurs(self)) => free(result) = free(self)

\* C9 witness: the body holds a binder of another variable around a free
\* occurrence of the renamed one.
C9_Witness ==
  /\ op = "alpha_convert"
  /\ variable \notin occurs(self)
  /\ IsBinder(self.term)
  /\ self.term.variable # self.variable
  /\ self.variable \in free(self.term)
  /\ result.variable = variable
  /\ variable \in occurs(result.term)

\* the symbols that are a prefix of text
SymbolPrefixes(text) ==
  {i \in DOMAIN Tokens_SYMBOLS :
     /\ Len(Tokens_SYMBOLS[i]) <= Len(text)
     /\ SubSeq(text, 1, Len(Tokens_SYMBOLS[i])) = Tokens_SYMBOLS[i]}

\* longest-match insertion as C10 states it
RECURSIVE LongestMatch(_)
LongestMatch(text) ==
  IF Len(text) = 0 THEN <<>>
  ELSE IF SymbolPrefixes(text) = {} THEN <<text[1]>> \o LongestMatch(Tail(text))
  ELSE LET i == CHOOSE i \in SymbolPrefixes(text) :
                  \A j \in SymbolPrefixes(text) : Len(Tokens_SYMBOLS[j]) <= Len(Tokens_SYMBOLS[i])
           sym == Tokens_SYMBOLS[i]
       IN  <<" ">> \o sym \o <<" ">> \o LongestMatch(SubSeq(text, Len(sym) + 1, Len(text)))

\* C10: process emits the longest symbol that is a prefix, between spaces, and
\* any other character as it is.
C10_LongestMatch ==
  op = "process" => result = LongestMatch(data)

\* C11: free(X.replace(v, e)) = (free(X) \ {v}) \cup free(e) when v is free
\* in X, and free(X) when it is not, for every value of the counter.
C11_ReplaceFree ==
  op = "replace" =>
    free(result) = IF variable \in free(self)
                   THEN (free(self) \ {variable}) \cup free(expression)
                   ELSE free(self)

\* C12: A == B true implies free(A) = free(B).
C12_EqualFree ==
  (op = "eq" /\ result = TRUE) => free(self) = free(expression)

\* C13: every variable of a parsed expression, bound ones included, has a
\* name that is not a reserved lexeme, and a text with a reserved lexeme right
\* after a lambda marker or a quantifier is rejected.
C13_VariablesNotReserved ==
  op = "parse" =>
    /\ raised = "none" => \A v \in occurs(result) : isvariable(v.name)
    /\ \A i \in 1..(Len(buffer) - 1) :
         (/\ InList(buffer[i], Tokens_LAMBDA) \/ InList(buffer[i], Tokens_QUANTS)
          /\ ~isvariable(buffer[i + 1]))
           => raised # "none"
====
